---- MODULE Spec2Model ----
(***************************************************************************)
(* Model of exercises/operators/operators.cpp:                             *)
(*   - class Fraction and its multiplication / comparison operators,       *)
(*     exercised the way main() exercises them (construct two fractions,   *)
(*     then multiply, multiply in place and compare);                      *)
(*   - problem3(), the raw-pointer ownership exercise;                     *)
(*   - problem2(), the vector of unique_ptr.                               *)
(* unsigned int arithmetic is modulo 2^UIntBits.  The width of unsigned    *)
(* int is a property of the build, not of the source file; the model uses  *)
(* a narrow width so that wrap-around is reached with small operands.      *)
(***************************************************************************)
EXTENDS Integers, Sequences, FiniteSets, TLC

\* ------------------------------------------------------------- bounds ----
UIntBits == 8
MaxSteps == 1

Modulus == 2 ^ UIntBits
HalfBit == 2 ^ (UIntBits \div 2)
HighBit == 2 ^ (UIntBits - 1)

\* operands handed to the constructors and used as coefficients
Vals == {0, 1, 2, 3, 6, HalfBit, HalfBit + 1, HighBit}
Coeffs == {0, 2, HalfBit}

\* ------------------------------------------------- unsigned arithmetic ----
\* unsigned int multiplication (m_num *= coeff, l.m_num*r.m_num, ...)
UMul(a, b) == (a * b) % Modulus

\* initialisation of "const int gcd" from the unsigned result of std::gcd
ToInt(u) == IF u >= HighBit THEN u - Modulus ELSE u

\* the int operand of "m_num /= gcd" converted back to unsigned int
ToUnsigned(i) == i % Modulus

RECURSIVE gcd(_, _)
gcd(a, b) == IF b = 0 THEN a ELSE gcd(b, a % b)

\* ------------------------------------------------------ class Fraction ----
\* a constructor that reduces its arguments before storing them
FractionReducing(num, denom) ==
    LET g == gcd(num, denom)
    IN  IF g = 0 THEN [m_num |-> num, m_denom |-> denom]
        ELSE [m_num |-> num \div g, m_denom |-> denom \div g]

Fraction(num, denom) == [m_num |-> num, m_denom |-> denom]

FractionFromUInt(num) == [m_num |-> num, m_denom |-> 1]

\* the outcome of an evaluation that divides by zero
Undefined == [ub |-> TRUE]

normalize(f) ==
    LET g == ToInt(gcd(f.m_num, f.m_denom))
        u == ToUnsigned(g)
    IN  IF u = 0 THEN Undefined
        ELSE [m_num |-> f.m_num \div u, m_denom |-> f.m_denom \div u]

operatorMulAssignUInt(self, coeff) ==
    normalize([self EXCEPT !.m_num = UMul(self.m_num, coeff)])

operatorMulAssignFraction(self, r) ==
    normalize([m_num |-> UMul(self.m_num, r.m_num),
               m_denom |-> UMul(self.m_denom, r.m_denom)])

operatorMulMember(self, coeff) ==
    LET rr == operatorMulAssignUInt(Fraction(self.m_num, self.m_denom), coeff)
    IN  IF rr = Undefined THEN Undefined ELSE normalize(rr)

operatorMulFree(coeff, r) ==
    LET rr == operatorMulAssignUInt(Fraction(r.m_num, r.m_denom), coeff)
    IN  IF rr = Undefined THEN Undefined ELSE normalize(rr)

operatorMulFraction(l, r) ==
    normalize(Fraction(UMul(l.m_num, r.m_num), UMul(l.m_denom, r.m_denom)))

\* the comparison operators normalise copies of both operands first; the
\* comparison is undefined when one of these normalisations is
CompareUndefined(l, r) == normalize(l) = Undefined \/ normalize(r) = Undefined

\* an equality that compares the stored fields without normalising
operatorEqStored(l, r) == (l.m_num = r.m_num) /\ (l.m_denom = r.m_denom)

operatorEq(l, r) ==
    LET ll == normalize(l)
        rr == normalize(r)
    IN  (ll.m_num = rr.m_num) /\ (ll.m_denom = rr.m_denom)

operatorNe(l, r) == ~operatorEq(l, r)

operatorLt(l, r) ==
    LET ll == normalize(l)
        rr == normalize(r)
    IN  UMul(ll.m_num, rr.m_denom) < UMul(rr.m_num, ll.m_denom)

operatorLe(l, r) == operatorLt(l, r) \/ operatorEq(l, r)

operatorGt(l, r) ==
    LET ll == normalize(l)
        rr == normalize(r)
    IN  UMul(ll.m_num, rr.m_denom) > UMul(rr.m_num, ll.m_denom)

operatorGe(l, r) == operatorGt(l, r) \/ operatorEq(l, r)

\* --------------------------------------------------------------- state ----
VARIABLES
    f,        \* the fraction operated on (left operand, target of *=)
    r,        \* the right operand
    op,       \* the operation performed last
    argNum,   \* constructor arguments of the last construction
    argDenom,
    arg,      \* value of f before the last operation
    coeff,    \* the unsigned coefficient, when the last operation scaled
    res,      \* the Fraction returned, when the last operation multiplied
    ret,      \* the bool returned, when the last operation compared
    steps,    \* number of modifications of f so far
    trapped   \* the process was killed by a division by zero

fvars == <<f, r, op, argNum, argDenom, arg, coeff, res, ret, steps, trapped>>

\* problem3()
VARIABLES
    pc,             \* position in problem3()
    objVector,      \* std::vector<LargeObject*> objVector
    objVectorCopy,  \* std::vector<LargeObject*> objVectorCopy
    idx,            \* position of the running range-for loop (1-based)
    deletes,        \* per LargeObject: how many times delete was applied
    randPos         \* the position removeRandom erased (0-based), -1 before

pvars == <<pc, objVector, objVectorCopy, idx, deletes, randPos>>

\* problem2()
VARIABLES
    pc2,           \* position in problem2()
    growth,        \* how the standard library grows a full vector
    largeObjects,  \* std::vector<std::unique_ptr<LargeObject>> largeObjects
    oldStorage,    \* the elements of the buffer a reallocation moves from
    capacity,      \* largeObjects.capacity()
    object,        \* createLargeObject(): auto object
    newObj,        \* problem2(): auto newObj
    i,             \* the counter of the first loop
    it,            \* position of the running element loop (1-based)
    allocated,     \* the LargeObjects make_unique has created
    frees,         \* per LargeObject: how many times it was deallocated
    written,       \* the LargeObjects changeLargeObject has written to
    deadAccess     \* changeLargeObject was handed a null or freed object

qvars == <<pc2, growth, largeObjects, oldStorage, capacity, object, newObj,
           i, it, allocated, frees, written, deadAccess>>

vars == <<fvars, pvars, qvars>>

\* placeholder of res while no multiplication result is being held
NoFraction == [m_num |-> 0, m_denom |-> 0]

ConstructOps == {"main", "Fraction_f", "Fraction_r"}
MulOps == {"mulMember", "mulFree", "mulFraction", "mulAssignUInt",
           "mulAssignFraction"}

\* main(): const Fraction three{3}; const Fraction athird{1, 3};
FractionInit ==
    /\ f = FractionFromUInt(3)
    /\ r = Fraction(1, 3)
    /\ op = "main"
    /\ argNum = 0
    /\ argDenom = 0
    /\ arg = FractionFromUInt(3)
    /\ coeff = 0
    /\ res = NoFraction
    /\ ret = FALSE
    /\ steps = 0
    /\ trapped = FALSE

\* ------------------------------------------------------- construction ----
Constructed(target, v, n, d) ==
    /\ op \in ConstructOps
    /\ ~trapped
    /\ IF target = "f" THEN f' = v /\ arg' = v /\ UNCHANGED r
                       ELSE r' = v /\ UNCHANGED <<f, arg>>
    /\ op' = IF target = "f" THEN "Fraction_f" ELSE "Fraction_r"
    /\ argNum' = n
    /\ argDenom' = d
    /\ UNCHANGED <<coeff, res, ret, steps, trapped>>
    /\ UNCHANGED <<pvars, qvars>>

\* Fraction{num, denom}
Construct2 ==
    \E target \in {"f", "r"}, n \in Vals, d \in Vals :
        Constructed(target, Fraction(n, d), n, d)

\* Fraction{num}
Construct1 ==
    \E target \in {"f", "r"}, n \in Vals :
        Constructed(target, FractionFromUInt(n), n, 1)

\* ----------------------------------------------------- multiplication ----
\* what a build can do with an evaluation whose value is v: a defined value
\* is returned; a division by zero either kills the process or leaves any
\* value behind
UBFractions == {Fraction(n, d) : n \in {0, 1, HalfBit}, d \in {0, 1, HalfBit}}

Returned(name, k, v, inplace) ==
    /\ ~trapped
    /\ op' = name
    /\ arg' = f
    /\ coeff' = k
    /\ ret' = FALSE
    /\ argNum' = 0
    /\ argDenom' = 0
    /\ UNCHANGED r
    /\ UNCHANGED <<pvars, qvars>>
    /\ \/ /\ v = Undefined
          /\ trapped' = TRUE
          /\ res' = NoFraction
          /\ UNCHANGED <<f, steps>>
       \/ /\ \E out \in (IF v = Undefined THEN UBFractions ELSE {v}) :
                /\ res' = out
                /\ IF inplace THEN f' = out /\ steps' = steps + 1
                              ELSE UNCHANGED <<f, steps>>
          /\ trapped' = FALSE

\* f * coeff
MulMember ==
    \E k \in Coeffs : Returned("mulMember", k, operatorMulMember(f, k), FALSE)

\* coeff * f
MulFree ==
    \E k \in Coeffs : Returned("mulFree", k, operatorMulFree(k, f), FALSE)

\* f * r
MulFraction ==
    Returned("mulFraction", 0, operatorMulFraction(f, r), FALSE)

\* f *= coeff
MulAssignUInt ==
    /\ steps < MaxSteps
    /\ \E k \in Coeffs :
          Returned("mulAssignUInt", k, operatorMulAssignUInt(f, k), TRUE)

\* f *= r
MulAssignFraction ==
    /\ steps < MaxSteps
    /\ Returned("mulAssignFraction", 0, operatorMulAssignFraction(f, r), TRUE)

\* --------------------------------------------------------- comparison ----
Compared(name, b) ==
    /\ ~trapped
    /\ op' = name
    /\ arg' = f
    /\ coeff' = 0
    /\ res' = NoFraction
    /\ argNum' = 0
    /\ argDenom' = 0
    /\ UNCHANGED <<f, r, steps>>
    /\ UNCHANGED <<pvars, qvars>>
    /\ \/ /\ CompareUndefined(f, r)
          /\ trapped' = TRUE
          /\ ret' = FALSE
       \/ /\ ret' \in (IF CompareUndefined(f, r) THEN BOOLEAN ELSE {b})
          /\ trapped' = FALSE

Eq == Compared("eq", operatorEq(f, r))
Ne == Compared("ne", operatorNe(f, r))
Lt == Compared("lt", operatorLt(f, r))
Le == Compared("le", operatorLe(f, r))
Gt == Compared("gt", operatorGt(f, r))
Ge == Compared("ge", operatorGe(f, r))

\* ------------------------------------------------------------ problem3 ----
NumObjects == 10
MaxTime == 19

\* the values time(nullptr) may return
TimeValues == 0 .. MaxTime

NullPtr == 0
Objects == 1 .. NumObjects

\* std::vector::erase of the element at 0-based position pos
Erase(collection, pos) ==
    [j \in 1 .. (Len(collection) - 1) |->
        IF j <= pos THEN collection[j] ELSE collection[j + 1]]

\* collection.begin() + collection.size()/2, as a 0-based position
MiddlePosition(collection) == Len(collection) \div 2

\* collection.begin() + time(nullptr) % collection.size()
RandomPosition(collection, t) == t % Len(collection)

removeMiddle(collection) == Erase(collection, MiddlePosition(collection))

removeRandom(collection, t) == Erase(collection, RandomPosition(collection, t))

\* a second loop that deletes without looking into the original vector
NotFoundUnchecked(collection, objPtr) == TRUE

\* std::find(objVector.begin(), objVector.end(), objPtr) == objVector.end()
NotFound(collection, objPtr) ==
    \A j \in 1 .. Len(collection) : collection[j] # objPtr

\* delete objPtr
Delete(objPtr) ==
    IF objPtr = NullPtr THEN deletes
    ELSE [deletes EXCEPT ![objPtr] = @ + 1]

\* std::vector<LargeObject*> objVector(10): ten null pointers
ProblemIdle ==
    /\ pc = "idle"
    /\ objVector = <<>>
    /\ objVectorCopy = <<>>
    /\ idx = 1
    /\ deletes = [o \in Objects |-> 0]
    /\ randPos = -1

ProblemInit ==
    /\ pc = "alloc"
    /\ objVector = [j \in 1 .. NumObjects |-> NullPtr]
    /\ objVectorCopy = <<>>
    /\ idx = 1
    /\ deletes = [o \in Objects |-> 0]
    /\ randPos = -1

\* for (auto& ptr : objVector) ptr = new LargeObject();
Alloc ==
    /\ pc = "alloc"
    /\ idx <= Len(objVector)
    /\ objVector' = [objVector EXCEPT ![idx] = idx]
    /\ idx' = idx + 1
    /\ UNCHANGED <<pc, objVectorCopy, deletes, randPos>>
    /\ UNCHANGED <<fvars, qvars>>

\* std::vector<LargeObject*> objVectorCopy(objVector);
Copy ==
    /\ pc = "alloc"
    /\ idx > Len(objVector)
    /\ objVectorCopy' = objVector
    /\ pc' = "removeMiddle"
    /\ UNCHANGED <<objVector, idx, deletes, randPos>>
    /\ UNCHANGED <<fvars, qvars>>

\* removeMiddle(objVector);
RemoveMiddle ==
    /\ pc = "removeMiddle"
    /\ objVector' = removeMiddle(objVector)
    /\ pc' = "removeRandom"
    /\ UNCHANGED <<objVectorCopy, idx, deletes, randPos>>
    /\ UNCHANGED <<fvars, qvars>>

\* removeRandom(objVectorCopy);
RemoveRandom ==
    /\ pc = "removeRandom"
    /\ \E t \in TimeValues :
          /\ objVectorCopy' = removeRandom(objVectorCopy, t)
          /\ randPos' = RandomPosition(objVectorCopy, t)
    /\ pc' = "process"
    /\ idx' = 1
    /\ UNCHANGED <<objVector, deletes>>
    /\ UNCHANGED <<fvars, qvars>>

\* for (auto elm : objVector) processElement(elm);
Process ==
    /\ pc = "process"
    /\ IF idx <= Len(objVector)
          THEN idx' = idx + 1 /\ pc' = pc
          ELSE idx' = 1 /\ pc' = "deleteOriginal"
    /\ UNCHANGED <<objVector, objVectorCopy, deletes, randPos>>
    /\ UNCHANGED <<fvars, qvars>>

\* for (auto objPtr : objVector) delete objPtr;
DeleteOriginal ==
    /\ pc = "deleteOriginal"
    /\ IF idx <= Len(objVector)
          THEN /\ deletes' = Delete(objVector[idx])
               /\ idx' = idx + 1
               /\ pc' = pc
          ELSE /\ idx' = 1
               /\ pc' = "deleteCopy"
               /\ UNCHANGED deletes
    /\ UNCHANGED <<objVector, objVectorCopy, randPos>>
    /\ UNCHANGED <<fvars, qvars>>

\* for (auto objPtr : objVectorCopy)
\*     if (std::find(...) == objVector.end()) delete objPtr;
DeleteCopy ==
    /\ pc = "deleteCopy"
    /\ IF idx <= Len(objVectorCopy)
          THEN /\ deletes' = IF NotFound(objVector, objVectorCopy[idx])
                                THEN Delete(objVectorCopy[idx])
                                ELSE deletes
               /\ idx' = idx + 1
               /\ pc' = pc
          ELSE /\ pc' = "done"
               /\ UNCHANGED <<idx, deletes>>
    /\ UNCHANGED <<objVector, objVectorCopy, randPos>>
    /\ UNCHANGED <<fvars, qvars>>

\* ------------------------------------------------------------ problem2 ----
NumLargeObjects == 10

LargeObjects == 1 .. NumLargeObjects

\* libstdc++ and libc++ double the capacity of a full vector, the Microsoft
\* library adds half of it
GrowthPolicies == {"double", "half"}

Grow(policy, cap) ==
    IF policy = "double" THEN (IF cap = 0 THEN 1 ELSE 2 * cap)
    ELSE (IF cap + (cap \div 2) > cap THEN cap + (cap \div 2) ELSE cap + 1)

\* a source that keeps its pointer, as a copied raw pointer does
MovedFromKeeps(p) == p

\* std::move(p) into another unique_ptr: what the source holds afterwards
MovedFrom(p) == NullPtr

\* ~unique_ptr(): deallocates the object owned, if any
DestroyPtr(p) ==
    IF p = NullPtr THEN frees ELSE [frees EXCEPT ![p] = @ + 1]

Problem2Idle ==
    /\ pc2 = "idle"
    /\ growth = "double"
    /\ largeObjects = <<>>
    /\ oldStorage = <<>>
    /\ capacity = 0
    /\ object = NullPtr
    /\ newObj = NullPtr
    /\ i = 0
    /\ it = 1
    /\ allocated = {}
    /\ frees = [o \in LargeObjects |-> 0]
    /\ written = {}
    /\ deadAccess = FALSE

\* std::vector<std::unique_ptr<LargeObject>> largeObjects;
Problem2Init ==
    /\ pc2 = "loop"
    /\ growth \in GrowthPolicies
    /\ largeObjects = <<>>
    /\ oldStorage = <<>>
    /\ capacity = 0
    /\ object = NullPtr
    /\ newObj = NullPtr
    /\ i = 0
    /\ it = 1
    /\ allocated = {}
    /\ frees = [o \in LargeObjects |-> 0]
    /\ written = {}
    /\ deadAccess = FALSE

\* createLargeObject(): auto object = std::make_unique<LargeObject>();
MakeUnique ==
    /\ pc2 = "loop"
    /\ i < NumLargeObjects
    /\ object' = i + 1
    /\ allocated' = allocated \cup {i + 1}
    /\ pc2' = "return"
    /\ UNCHANGED <<growth, largeObjects, oldStorage, capacity, newObj, i, it,
                   frees, written, deadAccess>>
    /\ UNCHANGED <<fvars, pvars>>

\* return object;  /  auto newObj = createLargeObject();
ReturnObject ==
    /\ pc2 = "return"
    /\ newObj' = object
    /\ object' = NullPtr
    /\ frees' = DestroyPtr(MovedFrom(object))
    /\ pc2' = "push"
    /\ UNCHANGED <<growth, largeObjects, oldStorage, capacity, i, it,
                   allocated, written, deadAccess>>
    /\ UNCHANGED <<fvars, pvars>>

\* largeObjects.push_back(std::move(newObj)); a full vector first gets a
\* larger buffer, in which the new element is constructed
PushBack ==
    /\ pc2 = "push"
    /\ newObj' = MovedFrom(newObj)
    /\ IF Len(largeObjects) < capacity
          THEN /\ largeObjects' = Append(largeObjects, newObj)
               /\ pc2' = "endIteration"
               /\ UNCHANGED <<oldStorage, capacity, it>>
          ELSE /\ oldStorage' = largeObjects
               /\ largeObjects' =
                     Append([j \in 1 .. Len(largeObjects) |-> NullPtr], newObj)
               /\ capacity' = Grow(growth, capacity)
               /\ it' = 1
               /\ pc2' = "relocate"
    /\ UNCHANGED <<growth, object, i, allocated, frees, written, deadAccess>>
    /\ UNCHANGED <<fvars, pvars>>

\* push_back, continued: the elements are moved to the new buffer one by
\* one, each moved-from element is destroyed, the old buffer is released
Relocate ==
    /\ pc2 = "relocate"
    /\ IF it <= Len(oldStorage)
          THEN /\ largeObjects' = [largeObjects EXCEPT ![it] = oldStorage[it]]
               /\ oldStorage' =
                     [oldStorage EXCEPT ![it] = MovedFrom(oldStorage[it])]
               /\ frees' = DestroyPtr(MovedFrom(oldStorage[it]))
               /\ it' = it + 1
               /\ pc2' = pc2
          ELSE /\ oldStorage' = <<>>
               /\ it' = 1
               /\ pc2' = "endIteration"
               /\ UNCHANGED <<largeObjects, frees>>
    /\ UNCHANGED <<growth, capacity, object, newObj, i, allocated, written,
                   deadAccess>>
    /\ UNCHANGED <<fvars, pvars>>

\* end of the loop body: newObj is destroyed; ++i
EndIteration ==
    /\ pc2 = "endIteration"
    /\ frees' = DestroyPtr(newObj)
    /\ newObj' = NullPtr
    /\ i' = i + 1
    /\ pc2' = "loop"
    /\ UNCHANGED <<growth, largeObjects, oldStorage, capacity, object, it,
                   allocated, written, deadAccess>>
    /\ UNCHANGED <<fvars, pvars>>

\* i < 10 is false: the first loop ends
LoopExit ==
    /\ pc2 = "loop"
    /\ ~(i < NumLargeObjects)
    /\ it' = 1
    /\ pc2' = "change"
    /\ UNCHANGED <<growth, largeObjects, oldStorage, capacity, object, newObj,
                   i, allocated, frees, written, deadAccess>>
    /\ UNCHANGED <<fvars, pvars>>

\* for (const auto& obj : largeObjects) changeLargeObject(*obj);
Change ==
    /\ pc2 = "change"
    /\ IF it <= Len(largeObjects)
          THEN /\ IF largeObjects[it] = NullPtr
                  THEN deadAccess' = TRUE /\ UNCHANGED written
                  ELSE IF frees[largeObjects[it]] > 0
                  THEN deadAccess' = TRUE /\ UNCHANGED written
                  ELSE /\ written' = written \cup {largeObjects[it]}
                       /\ UNCHANGED deadAccess
               /\ it' = it + 1
               /\ pc2' = pc2
          ELSE /\ it' = 1
               /\ pc2' = "destroy"
               /\ UNCHANGED <<written, deadAccess>>
    /\ UNCHANGED <<growth, largeObjects, oldStorage, capacity, object, newObj,
                   i, allocated, frees>>
    /\ UNCHANGED <<fvars, pvars>>

\* end of problem2(): largeObjects is destroyed, element by element
DestroyVector ==
    /\ pc2 = "destroy"
    /\ IF it <= Len(largeObjects)
          THEN /\ frees' = DestroyPtr(largeObjects[it])
               /\ largeObjects' = [largeObjects EXCEPT ![it] = NullPtr]
               /\ it' = it + 1
               /\ pc2' = pc2
               /\ UNCHANGED capacity
          ELSE /\ largeObjects' = <<>>
               /\ capacity' = 0
               /\ pc2' = "returned"
               /\ UNCHANGED <<frees, it>>
    /\ UNCHANGED <<growth, oldStorage, object, newObj, i, allocated, written,
                   deadAccess>>
    /\ UNCHANGED <<fvars, pvars>>

\* -------------------------------------------------------- specifications ----
Init == FractionInit /\ ProblemIdle /\ Problem2Idle

Next ==
    \/ Construct2
    \/ Construct1
    \/ MulMember
    \/ MulFree
    \/ MulFraction
    \/ MulAssignUInt
    \/ MulAssignFraction
    \/ Eq
    \/ Ne
    \/ Lt
    \/ Le
    \/ Gt
    \/ Ge

Spec == Init /\ [][Next]_vars

InitProblem3 == FractionInit /\ ProblemInit /\ Problem2Idle

NextProblem3 ==
    \/ Alloc
    \/ Copy
    \/ RemoveMiddle
    \/ RemoveRandom
    \/ Process
    \/ DeleteOriginal
    \/ DeleteCopy

SpecProblem3 == InitProblem3 /\ [][NextProblem3]_vars

InitProblem2 == FractionInit /\ ProblemIdle /\ Problem2Init

NextProblem2 ==
    \/ MakeUnique
    \/ ReturnObject
    \/ PushBack
    \/ Relocate
    \/ EndIteration
    \/ LoopExit
    \/ Change
    \/ DestroyVector

SpecProblem2 == InitProblem2 /\ [][NextProblem2]_vars

\* ============================================================ properties ====
Max(a, b) == IF a >= b THEN a ELSE b

\* gcd(n, d) == 1, stated by divisors: n and d are not both zero and no
\* number above 1 divides both
Coprime(n, d) ==
    /\ (n # 0 \/ d # 0)
    /\ \A p \in 2 .. Max(n, d) : ~((n % p = 0) /\ (d % p = 0))

\* the stored pair is in reduced form, the zero value being 0/1
StoredReduced(x) ==
    /\ Coprime(x.m_num, x.m_denom)
    /\ (x.m_num = 0 => x.m_denom = 1)

\* the reduced form of n/d (d # 0): the representation of the same rational
\* with the least denominator
LowestTerms(n, d) ==
    LET ds == {q \in 1 .. d : (n * q) % d = 0}
        dd == CHOOSE q \in ds : \A q2 \in ds : q <= q2
    IN  [m_num |-> (n * dd) \div d, m_denom |-> dd]

\* x is the reduced form of the exact rational n/d (d # 0)
IsReducedFormOf(x, n, d) ==
    /\ Coprime(x.m_num, x.m_denom)
    /\ x.m_num * d = n * x.m_denom

IsConstruction == op \in {"Fraction_f", "Fraction_r"}
LastConstructed == IF op = "Fraction_f" THEN f ELSE r

\* fractions a third operand is drawn from
Thirds == {[m_num |-> n, m_denom |-> d] : n \in Vals, d \in Vals \ {0}}

C2_ProductsStoredReduced ==
    (/\ op \in MulOps
     /\ arg.m_denom # 0
     /\ (op \in {"mulFraction", "mulAssignFraction"} => r.m_denom # 0))
    => (~trapped /\ StoredReduced(res))

\* C3: for operands with nonzero denominators operator== returns true iff
\* the reduced forms are the same pair, and it is reflexive, symmetric and
\* transitive.
C3_EqualityOfReducedForms ==
    (op = "eq" /\ arg.m_denom # 0 /\ r.m_denom # 0) =>
        /\ ~trapped
        /\ ret = (LowestTerms(arg.m_num, arg.m_denom)
                    = LowestTerms(r.m_num, r.m_denom))
        /\ operatorEq(arg, arg)
        /\ operatorEq(r, r)
        /\ operatorEq(r, arg) = ret
        /\ \A t \in Thirds :
              (ret /\ operatorEq(r, t)) => operatorEq(arg, t)

\* Fraction{2, 6} == Fraction{1, 3} has been evaluated and returned true
C3_Witness ==
    /\ op = "eq"
    /\ arg = [m_num |-> 2, m_denom |-> 6]
    /\ r = [m_num |-> 1, m_denom |-> 3]
    /\ ret = TRUE

\* C4 (as stated): for operands with nonzero denominators exactly one of
\* a < b, a == b, b < a holds.
C4_Trichotomy ==
    (op = "lt" /\ arg.m_denom # 0 /\ r.m_denom # 0) =>
        LET lt == ret
            eq == operatorEq(arg, r)
            gt == operatorLt(r, arg)
        IN  \/ (lt /\ ~eq /\ ~gt)
            \/ (~lt /\ eq /\ ~gt)
            \/ (~lt /\ ~eq /\ gt)

\* C5 (as stated): for operands with nonzero denominators
\* (a >= b) == !(a < b).
C5_GeIsNotLt ==
    (op = "ge" /\ arg.m_denom # 0 /\ r.m_denom # 0) =>
        (ret = ~operatorLt(arg, r))

\* C6 (as stated): a * k and k * a give the same Fraction, and it is the
\* reduced form of (a.numerator * k) / a.denominator.
C6_ScalingSymmetricAndExact ==
    (op \in {"mulMember", "mulFree"} /\ arg.m_denom # 0) =>
        /\ ~trapped
        /\ res = operatorMulMember(arg, coeff)
        /\ res = operatorMulFree(coeff, arg)
        /\ IsReducedFormOf(res, arg.m_num * coeff, arg.m_denom)

\* C7 (as stated): for operands with nonzero denominators a * b is b * a,
\* it is the reduced form of (a.num * b.num) / (a.den * b.den), a *
\* Fraction(k) is a * k and k * a, and a *= b leaves a equal to a * b.
C7_MultiplicationCommutativeAndExact ==
    (/\ op \in {"mulFraction", "mulAssignFraction"}
     /\ arg.m_denom # 0
     /\ r.m_denom # 0) =>
        /\ ~trapped
        /\ res = operatorMulFraction(arg, r)
        /\ res = operatorMulFraction(r, arg)
        /\ IsReducedFormOf(res, arg.m_num * r.m_num, arg.m_denom * r.m_denom)
        /\ \A k \in Coeffs :
              /\ operatorMulFraction(arg, FractionFromUInt(k))
                    = operatorMulMember(arg, k)
              /\ operatorMulFraction(arg, FractionFromUInt(k))
                    = operatorMulFree(k, arg)
        /\ (op = "mulAssignFraction" => f = operatorMulFraction(arg, r))

\* C8 (as stated): a construction with a zero denominator fails, so no
\* construction ever completes with a Fraction whose denominator is 0.
C8_NoZeroDenominatorConstructed ==
    IsConstruction => (argDenom # 0 /\ LastConstructed.m_denom # 0)

\* C9 (as stated): for operands with nonzero denominators a < b returns
\* true iff a.numerator * b.denominator < b.numerator * a.denominator in
\* exact arithmetic, without wrap-around.
C9_LessThanIsExact ==
    (op = "lt" /\ arg.m_denom # 0 /\ r.m_denom # 0) =>
        (ret = (arg.m_num * r.m_denom < r.m_num * arg.m_denom))

\* the LargeObjects that were never deleted
Leaked == {o \in Objects : deletes[o] = 0}

\* the object removeMiddle erased from the original vector
MiddleObject == (NumObjects \div 2) + 1

\* C10: in problem3 no LargeObject is deleted more than once; when
\* problem3 ends every object has been deleted exactly once, except that
\* the object removeMiddle erased is never deleted when removeRandom erased
\* the same element (position 5) from the copy, and only then.
C10_DeletedOnceOrLeaked ==
    /\ \A o \in Objects : deletes[o] <= 1
    /\ (pc = "done" =>
          Leaked = IF randPos = NumObjects \div 2 THEN {MiddleObject} ELSE {})

\* problem3 has ended after removeRandom erased position 5: one leak
C10_Witness ==
    /\ pc = "done"
    /\ randPos = 5
    /\ deletes[6] = 0
    /\ \A o \in Objects \ {6} : deletes[o] = 1

\* the unique_ptrs that own LargeObject o: the two locals and the elements
\* of the vector's buffers
Owners(o) ==
    (IF object = o THEN 1 ELSE 0)
    + (IF newObj = o THEN 1 ELSE 0)
    + Cardinality({j \in 1 .. Len(largeObjects) : largeObjects[j] = o})
    + Cardinality({j \in 1 .. Len(oldStorage) : oldStorage[j] = o})

InVector(o) == \E j \in 1 .. Len(largeObjects) : largeObjects[j] = o

====
